---- MODULE Spec2Model ----
(***************************************************************************)
(* The Record page of web-app/static/js/script.js: microphone set-up, the  *)
(* start/stop button handlers, the MediaRecorder callbacks, uploadRecording *)
(* and the polling loop waitForAnalysis, as one state machine; and the     *)
(* History page's loader.  Every action is one run-to-completion step of   *)
(* the browser's event loop: a handler from its first statement to its     *)
(* next await (or its end).                                                *)
(***************************************************************************)
EXTENDS Integers, Sequences, FiniteSets, TLC

\* ------------------------------------------------------------- bounds
\* recordings (start clicks that begin a recording) in one run
MaxCycles == 2
\* the largest explicit maxTries argument tried on waitForAnalysis
MaxTriesArg == 3
\* the longest recordings array GET /api/recordings answers with
MaxRecordings == 3

\* ------------------------------------------------- program constants
\* maxTries = maxTries || 20
DefaultMaxTries == 20
\* delayMs = delayMs || 1000
DefaultDelayMs == 1000

\* ------------------------------------------------------ JS values
\* null / undefined, and a present value, of a nullable field or argument
Null == << >>
Some(x) == << x >>

\* (variant) only an omitted argument gets the default: 0 is kept
OrDefaultOmitted(x, d) == IF x = Null THEN d ELSE x[1]

\* x || d for a numeric argument: undefined and 0 are falsy
OrDefault(x, d) == IF x = Null \/ x = Some(0) THEN d ELSE x[1]

\* (variant) the body's error text is not looked at
OrTextDefault(x, d) == d

\* x || d for a string field: undefined, null and "" are falsy
OrText(x, d) == IF x = Null \/ x = Some("") THEN d ELSE x[1]

\* ----------------------------------------------------- status texts
MsgMicReady == "Microphone ready. Press 'Start Recording'."
MsgMicDenied == "Microphone access denied or unavailable."
MsgNotInit == "Microphone not initialized yet."
MsgRecording == "Recording... speak now."
MsgStopping == "Stopping recording..."
MsgFinished == "Recording finished."
MsgUploading == "Uploading recording..."
MsgUploadFailed == "Upload failed."
MsgNoId == "Upload succeeded, but no recording ID returned."
MsgAnalyzing == "Recording uploaded. Analyzing pitch..."
MsgNotInTime == "Analysis did not complete in time. Check History."
MsgComplete == "Analysis complete."
MsgException == "Error uploading or analyzing recording."
\* the status element's text before any script wrote it
MsgInitial == ""

\* ------------------------------------------- numbers and formatting
\* pitch_hz is held in hundredths of a hertz, confidence in thousandths

\* pitchHz.toFixed(1): one decimal, rounded half up
ToFixed1(h) ==
    LET t == (h + 5) \div 10
    IN  ToString(t \div 10) \o "." \o ToString(t % 10)

\* Math.round(confidence * 100)
RoundPercent(c) == ToString((c + 5) \div 10)

\* (variant) the frequency is left out of the text
AnalysisTextNoHz(a) ==
    "Detected pitch: " \o
    (IF a.pitch_note # Null /\ a.pitch_note # Some("")
     THEN a.pitch_note[1] ELSE "(not available)") \o
    (IF a.confidence # Null
     THEN " (confidence " \o RoundPercent(a.confidence[1]) \o "%)"
     ELSE "")

\* the text uploadRecording builds from an analysis (lines 232-250)
AnalysisText(a) ==
    LET head == "Detected pitch: "
        pitch ==
            IF a.pitch_note # Null /\ a.pitch_note # Some("")
            THEN a.pitch_note[1] \o
                 (IF a.pitch_hz # Null
                  THEN " (" \o ToFixed1(a.pitch_hz[1]) \o " Hz)"
                  ELSE "")
            ELSE IF a.pitch_hz # Null
                 THEN ToFixed1(a.pitch_hz[1]) \o " Hz"
                 ELSE "(not available)"
        conf ==
            IF a.confidence # Null
            THEN " (confidence " \o RoundPercent(a.confidence[1]) \o "%)"
            ELSE ""
    IN  head \o pitch \o conf

\* ------------------------------------------------ backend responses
Analysis(hz, note, conf) ==
    [pitch_hz |-> hz, pitch_note |-> note, confidence |-> conf]

\* {pitch_hz: 440.0, pitch_note: "A4", confidence: 0.92}
AnalysisA4 == Analysis(Some(44000), Some("A4"), Some(920))
\* a pitch without a note name or a confidence
AnalysisBare == Analysis(Some(26163), Null, Null)
\* an analysis object whose pitch is not filled in yet
AnalysisNoPitch == Analysis(Null, Null, Null)

\* a response to GET /api/recordings/<id>: the fetch (or res.json()) throws,
\* or it resolves with res.ok and, when ok, the body rec
PollThrow ==
    [kind |-> "throw", ok |-> FALSE, status |-> "", analysis |-> Null,
     error_message |-> Null]
PollHttp(ok, status, analysis, msg) ==
    [kind |-> "http", ok |-> ok, status |-> status, analysis |-> analysis,
     error_message |-> msg]

PollResponses ==
    { PollThrow,
      PollHttp(FALSE, "", Null, Null),
      PollHttp(FALSE, "error", Null, Some("Audio decode failed")),
      PollHttp(FALSE, "done", Some(AnalysisA4), Null),
      PollHttp(TRUE, "pending", Null, Null),
      PollHttp(TRUE, "processing", Null, Null),
      PollHttp(TRUE, "processing", Some(AnalysisBare), Null),
      PollHttp(TRUE, "done", Null, Null),
      PollHttp(TRUE, "done", Some(AnalysisNoPitch), Null),
      PollHttp(TRUE, "done", Some(AnalysisA4), Null),
      PollHttp(TRUE, "done", Some(AnalysisBare), Null),
      PollHttp(TRUE, "error", Null, Some("Audio decode failed")),
      PollHttp(TRUE, "error", Null, Null) }

\* a response to POST /api/upload: the fetch (or response.json()) throws, or
\* it resolves with response.ok and the body data {id, error}
UploadThrow == [kind |-> "throw", ok |-> FALSE, id |-> Null, error |-> Null]
UploadHttp(ok, id, error) ==
    [kind |-> "http", ok |-> ok, id |-> id, error |-> error]

UploadResponses ==
    { UploadThrow,
      UploadHttp(FALSE, Null, Some("No audio file")),
      UploadHttp(FALSE, Null, Null),
      UploadHttp(TRUE, Null, Null),
      UploadHttp(TRUE, Some(""), Null),
      UploadHttp(TRUE, Some("r42"), Null) }

\* the arguments tried on a direct call of waitForAnalysis
MaxTriesArgs == {Null} \cup {Some(n) : n \in 0..MaxTriesArg}
DelayArgs == {Null, Some(0), Some(500)}

\* -------------------------------------------------------------- state
VARIABLES
    mediaRecorder,  \* "null", or the recorder's state: "inactive", "recording"
    initPc,         \* initMedia: "await" (getUserMedia pending) or "done"
    chunks,         \* the shared chunk buffer
    events,         \* recorder events queued by stop(), oldest first
    statusEl,       \* statusEl.textContent
    analysisEl,     \* Null when the page has no #analysis-result, else Some(text)
    startDisabled,  \* startBtn.disabled
    stopDisabled,   \* stopBtn.disabled
    cycle,          \* recordings begun so far; the newest recording's number
    tasks,          \* the uploadRecording / waitForAnalysis call of each recording
    net,            \* requests in flight
    stream,         \* the microphone stream: "none", or "live" once obtained
    noopStop,       \* observer: a stop click found the recorder not recording
    pairs,          \* observer: recordings started and then stopped
    blobs,          \* observer: blobs built by onstop
    uploads,        \* observer: calls of uploadRecording
    histPc,         \* the History loader: "off", "await", "json", or its outcome
    emptyHistory,   \* Null when the page has no #empty-history, else Some(hidden)
    errorMessage,   \* Null when the page has no #error-message, else Some([hidden, text])
    historyList     \* the items appended to #history-list

counts == << pairs, blobs, uploads >>

history == << histPc, emptyHistory, errorMessage, historyList >>

vars ==
    << mediaRecorder, initPc, chunks, events, statusEl, analysisEl,
       startDisabled, stopDisabled, cycle, tasks, net, stream, noopStop,
       counts, history >>

ui ==
    << mediaRecorder, initPc, chunks, events, startDisabled, stopDisabled,
       cycle, stream, noopStop, counts, history >>

Tasks == 1..MaxCycles

\* a call that has not been made
IdleTask ==
    [pc |-> "idle", caller |-> "none", blob |-> << >>, id |-> Null,
     maxArg |-> Null, maxTries |-> 0, delayMs |-> 0, i |-> 0,
     nfetch |-> 0, hist |-> "off", got |-> Null, gotAt |-> 0,
     result |-> Null, cause |-> "none", shown |-> "", cycleAtPoll |-> 0,
     upResp |-> Null, delayArg |-> Null]

Terminal == {"complete", "failed", "returned"}

UploadReq(t) == [task |-> t, kind |-> "upload", n |-> 0]
PollReq(t, n) == [task |-> t, kind |-> "poll", n |-> n]

\* stop() queues one task that fires dataavailable and then stop at the
\* recorder (MediaStream Recording, stop(), step 4): once that task has run
\* ondataavailable nothing else runs before it has run onstop.  The queue's
\* head is a stop event exactly in between the two handlers
Dispatching == events # << >> /\ Head(events).type = "stop"

\* if (analysisEl) analysisEl.textContent = text
SetAnalysis(el, text) == IF el = Null THEN Null ELSE Some(text)

\* --------------------------------------------------- waitForAnalysis
\* (variant) a done status with any analysis object ends the poll
IsReadyIgnoresPitch(r) ==
    /\ r.kind = "http" /\ r.ok
    /\ r.status = "done"
    /\ r.analysis # Null

\* line 138: status done with an analysis whose pitch_hz is not null
IsReady(r) ==
    /\ r.kind = "http" /\ r.ok
    /\ r.status = "done"
    /\ r.analysis # Null
    /\ r.analysis[1].pitch_hz # Null

\* (variant) an error status is not tested for: it is one more miss
IsErrorNever(r) == FALSE

\* (variant) a fetch that throws ends the poll like an error status
IsErrorOrThrow(r) == r.kind = "throw" \/ (r.ok /\ r.status = "error")

\* (variant) the body's status is read whatever the HTTP status is
IsErrorAnyHttp(r) == r.kind = "http" /\ r.status = "error"

\* line 141: status error
IsError(r) == r.kind = "http" /\ r.ok /\ r.status = "error"

\* (variant) the loop's test off by one
LoopContinuesInclusive(i, maxTries) == i <= maxTries

\* line 132: the loop's test
LoopContinues(i, maxTries) == i < maxTries

\* (variant) the request is not awaited: the caller goes on while it is
\* still in flight
NotAwaited(req) == net

\* await fetch(...): the caller goes on only once the request has settled,
\* so the request is no longer in flight
Settled(req) == net \ {req}

\* What the backend answered, as an observer reads it off the response
\* (independently of the tests the loop makes): a recording that is done
\* with a pitch, a recording in error, or anything else (a miss).
ReportsDone(r) ==
    /\ r.kind = "http" /\ r.ok /\ r.status = "done"
    /\ r.analysis # Null /\ r.analysis[1].pitch_hz # Null

ReportsError(r) == r.kind = "http" /\ r.ok /\ r.status = "error"

MissClass(r) ==
    IF r.kind = "throw" THEN "throw"
    ELSE IF ~r.ok THEN "notok"
    ELSE IF r.status \in {"pending", "processing"} /\ r.analysis = Null THEN "wait"
    ELSE IF r.status = "done" /\ r.analysis # Null THEN "doneNull"
    ELSE "other"

\* hist: "none" before the first miss, then what every miss so far was,
\* "mixed" once two differ; "off" for a call whose misses are not recorded
NextHist(h, c) ==
    IF h = "off" THEN "off"
    ELSE IF h = "none" \/ h = c THEN c
    ELSE "mixed"

\* The observer's record of a call: got is the first response that reported
\* done-with-pitch or error and gotAt the number of the fetch that returned
\* it; hist classifies the misses before it.  No record is kept of a call
\* whose hist is "off".
Observe(task, r) ==
    IF task.hist = "off" \/ task.got # Null THEN task
    ELSE IF ReportsDone(r) \/ ReportsError(r)
    THEN [task EXCEPT !.got = Some(r), !.gotAt = task.nfetch]
    ELSE [task EXCEPT !.hist = NextHist(task.hist, MissClass(r))]

\* lines 129-134: the defaults, then the first turn of the loop issues a
\* fetch (maxTries is at least 1 for every argument tried)
EnterPoll(task, maxArg, delayArg) ==
    [task EXCEPT !.pc = "fetch",
                 !.maxArg = maxArg,
                 !.delayArg = delayArg,
                 !.maxTries = OrDefault(maxArg, DefaultMaxTries),
                 !.delayMs = OrDefault(delayArg, DefaultDelayMs),
                 !.i = 0,
                 !.nfetch = 1,
                 !.cycleAtPoll = cycle]

\* lines 218-255 of uploadRecording: the status it shows once waitForAnalysis
\* returned `result`
ResultStatus(result) == IF result = Null THEN MsgNotInTime ELSE MsgComplete

\* (variant) the display is cleared whatever the poll returned
ResultAnalysisCleared(el, result) == SetAnalysis(el, "")

\* lines 220-222 and 227-253: the analysis display for `result`
ResultAnalysis(el, result) ==
    IF result = Null THEN SetAnalysis(el, "")
    ELSE SetAnalysis(el, AnalysisText(result[1]))

\* waitForAnalysis returned `result` to its caller: uploadRecording goes on
\* at line 218, a direct caller only keeps the result.  The loop's locals
\* end with the call; the count of its fetches stays with the observer's
\* record.
Returned(task, result, cause) ==
    LET done == [task EXCEPT !.result = result, !.cause = cause,
                             !.i = 0, !.cycleAtPoll = 0,
                             !.nfetch = IF task.hist = "off" THEN 0
                                        ELSE task.nfetch]
    IN  IF task.caller = "direct"
        THEN [done EXCEPT !.pc = "returned"]
        ELSE [done EXCEPT !.pc = IF result = Null THEN "failed" ELSE "complete",
                          !.shown = ResultStatus(result)]

ReturnedStatus(task, result) ==
    IF task.caller = "direct" THEN statusEl ELSE ResultStatus(result)

ReturnedAnalysis(task, result) ==
    IF task.caller = "direct" THEN analysisEl
    ELSE ResultAnalysis(analysisEl, result)

\* lines 135-149: a poll fetch settles with r
PollResponse(t, r) ==
    LET task == Observe(tasks[t], r) IN
    /\ ~Dispatching
    /\ task.pc = "fetch"
    /\ PollReq(t, task.nfetch) \in net
    /\ net' = Settled(PollReq(t, task.nfetch))
    /\ IF IsReady(r)
       THEN /\ tasks' = [tasks EXCEPT ![t] = Returned(task, r.analysis, "success")]
            /\ statusEl' = ReturnedStatus(task, r.analysis)
            /\ analysisEl' = ReturnedAnalysis(task, r.analysis)
       ELSE IF IsError(r)
       THEN /\ tasks' = [tasks EXCEPT ![t] = Returned(task, Null, "server_error")]
            /\ statusEl' = ReturnedStatus(task, Null)
            /\ analysisEl' = ReturnedAnalysis(task, Null)
       ELSE /\ tasks' = [tasks EXCEPT ![t] = [task EXCEPT !.pc = "sleep"]]
            /\ UNCHANGED << statusEl, analysisEl >>
    /\ UNCHANGED ui

\* lines 149, 132, 151: the wait is over, i++, and either the next fetch is
\* issued or the loop ends and null is returned
SleepDone(t) ==
    LET task == tasks[t] IN
    /\ ~Dispatching
    /\ task.pc = "sleep"
    /\ IF LoopContinues(task.i + 1, task.maxTries)
       THEN /\ tasks' = [tasks EXCEPT ![t] =
                    [task EXCEPT !.pc = "fetch", !.i = task.i + 1,
                                 !.nfetch = task.nfetch + 1]]
            /\ net' = net \cup {PollReq(t, task.nfetch + 1)}
            /\ UNCHANGED << statusEl, analysisEl >>
       ELSE /\ tasks' = [tasks EXCEPT ![t] =
                    Returned([task EXCEPT !.i = task.i + 1], Null, "timeout")]
            /\ statusEl' = ReturnedStatus(task, Null)
            /\ analysisEl' = ReturnedAnalysis(task, Null)
            /\ UNCHANGED net
    /\ UNCHANGED ui

\* ---------------------------------------------------- uploadRecording
\* lines 191-199, entered from onstop: the display is cleared, the status set
\* and the upload request issued
StartUpload(t, blob) ==
    [IdleTask EXCEPT !.pc = "upload", !.caller = "uploadRecording", !.blob = blob]

\* (variant) no catch block: the exception leaves uploadRecording
Uncaught(task) == [task EXCEPT !.pc = "crashed"]

\* lines 256-262: the catch block ends the cycle
Caught(task) ==
    [task EXCEPT !.pc = "failed", !.cause = "exception", !.shown = MsgException]

\* (variant) only a missing id is refused: an empty one is polled for
MissingIdNullOnly(r) == r.id = Null

\* line 213: !data.id, for an id that is missing, null or ""
MissingId(r) == r.id = Null \/ r.id = Some("")

\* lines 201-216 and the catch of 256-262: the upload request settles with r
UploadResponse(t, r) ==
    LET task == [tasks[t] EXCEPT !.upResp = Some(r)] IN
    /\ ~Dispatching
    /\ task.pc = "upload"
    /\ UploadReq(t) \in net
    /\ IF r.kind = "throw"
       THEN /\ tasks' = [tasks EXCEPT ![t] = Caught(task)]
            /\ statusEl' = MsgException
            /\ analysisEl' = SetAnalysis(analysisEl, "")
            /\ net' = Settled(UploadReq(t))
       ELSE IF ~r.ok
       THEN /\ tasks' = [tasks EXCEPT ![t] =
                    [task EXCEPT !.pc = "failed", !.cause = "upload_http",
                                 !.shown = OrText(r.error, MsgUploadFailed)]]
            /\ statusEl' = OrText(r.error, MsgUploadFailed)
            /\ analysisEl' = analysisEl
            /\ net' = Settled(UploadReq(t))
       ELSE IF MissingId(r)
       THEN /\ tasks' = [tasks EXCEPT ![t] =
                    [task EXCEPT !.pc = "failed", !.cause = "no_id",
                                 !.shown = MsgNoId]]
            /\ statusEl' = MsgNoId
            /\ analysisEl' = analysisEl
            /\ net' = Settled(UploadReq(t))
       ELSE /\ tasks' = [tasks EXCEPT ![t] =
                    EnterPoll([task EXCEPT !.id = r.id], Null, Null)]
            /\ statusEl' = MsgAnalyzing
            /\ analysisEl' = analysisEl
            /\ net' = Settled(UploadReq(t)) \cup {PollReq(t, 1)}
    /\ UNCHANGED ui

\* ------------------------------------------------------------ initMedia
\* lines 156-177: getUserMedia resolves and the recorder is set up
MicGranted ==
    /\ ~Dispatching
    /\ initPc = "await"
    /\ initPc' = "done"
    /\ mediaRecorder' = "inactive"
    /\ statusEl' = MsgMicReady
    /\ startDisabled' = FALSE
    /\ stream' = "live"
    /\ UNCHANGED << chunks, events, analysisEl, stopDisabled, cycle, tasks, net,
                    noopStop, counts, history >>

\* (variant) the catch block leaves the start button as it was
MicDeniedButtonKept ==
    /\ ~Dispatching
    /\ initPc = "await"
    /\ initPc' = "done"
    /\ statusEl' = MsgMicDenied
    /\ UNCHANGED << mediaRecorder, chunks, events, analysisEl, startDisabled,
                    stopDisabled, cycle, tasks, net, stream, noopStop, counts,
                    history >>

\* lines 178-182: getUserMedia rejects
MicDenied ==
    /\ ~Dispatching
    /\ initPc = "await"
    /\ initPc' = "done"
    /\ statusEl' = MsgMicDenied
    /\ startDisabled' = TRUE
    /\ UNCHANGED << mediaRecorder, chunks, events, analysisEl, stopDisabled,
                    cycle, tasks, net, stream, noopStop, counts, history >>

\* lines 156-157 and 178-182: getUserMedia resolves but new MediaRecorder
\* throws (no MediaRecorder in the browser, or the stream is refused); the
\* assignment of line 157 does not happen and the catch block runs.  Nothing
\* in the file stops the stream's tracks
MicSetupFailed ==
    /\ ~Dispatching
    /\ initPc = "await"
    /\ initPc' = "done"
    /\ stream' = "live"
    /\ statusEl' = MsgMicDenied
    /\ startDisabled' = TRUE
    /\ UNCHANGED << mediaRecorder, chunks, events, analysisEl, stopDisabled,
                    cycle, tasks, net, noopStop, counts, history >>

\* ------------------------------------------------------ button handlers
\* (variant) the handler leaves the start button enabled
StartClickKeepsButton ==
    /\ ~Dispatching
    /\ ~startDisabled
    /\ IF mediaRecorder = "null"
       THEN /\ statusEl' = MsgNotInit
            /\ UNCHANGED << mediaRecorder, chunks, analysisEl, stopDisabled, cycle >>
       ELSE IF mediaRecorder = "recording"
       THEN /\ chunks' = << >>
            /\ UNCHANGED << mediaRecorder, statusEl, analysisEl, stopDisabled, cycle >>
       ELSE /\ cycle < MaxCycles
            /\ chunks' = << >>
            /\ mediaRecorder' = "recording"
            /\ cycle' = cycle + 1
            /\ statusEl' = MsgRecording
            /\ stopDisabled' = FALSE
            /\ analysisEl' = SetAnalysis(analysisEl, "")
    /\ UNCHANGED << initPc, events, tasks, net, stream, noopStop, counts,
                    history, startDisabled >>

\* lines 265-279; a disabled button delivers no click.  mediaRecorder.start()
\* throws InvalidStateError unless the recorder is inactive, which ends the
\* handler after chunks = []
StartClick ==
    /\ ~Dispatching
    /\ ~startDisabled
    /\ IF mediaRecorder = "null"
       THEN /\ statusEl' = MsgNotInit
            /\ UNCHANGED << mediaRecorder, chunks, analysisEl, startDisabled,
                            stopDisabled, cycle >>
       ELSE IF mediaRecorder = "recording"
       THEN /\ chunks' = << >>
            /\ UNCHANGED << mediaRecorder, statusEl, analysisEl, startDisabled,
                            stopDisabled, cycle >>
       ELSE /\ cycle < MaxCycles
            /\ chunks' = << >>
            /\ mediaRecorder' = "recording"
            /\ cycle' = cycle + 1
            /\ statusEl' = MsgRecording
            /\ startDisabled' = TRUE
            /\ stopDisabled' = FALSE
            /\ analysisEl' = SetAnalysis(analysisEl, "")
    /\ UNCHANGED << initPc, events, tasks, net, stream, noopStop, counts, history >>

\* (variant) the handler does not test the recorder's state
StopClickUnguarded ==
    /\ ~Dispatching
    /\ ~stopDisabled
    /\ statusEl' = MsgStopping
    /\ startDisabled' = FALSE
    /\ stopDisabled' = TRUE
    /\ IF mediaRecorder = "recording"
       THEN /\ mediaRecorder' = "inactive"
            /\ events' = events \o << [type |-> "dataavailable", rec |-> cycle],
                                      [type |-> "stop", rec |-> cycle] >>
            /\ pairs' = pairs + 1
            /\ UNCHANGED noopStop
       ELSE /\ noopStop' = TRUE
            /\ UNCHANGED << mediaRecorder, events, pairs >>
    /\ UNCHANGED << initPc, chunks, analysisEl, cycle, tasks, net, stream,
                    blobs, uploads, history >>

\* lines 281-288; stop() makes the recorder inactive at once and queues its
\* dataavailable and stop events
StopClick ==
    /\ ~Dispatching
    /\ ~stopDisabled
    /\ IF mediaRecorder = "recording"
       THEN /\ mediaRecorder' = "inactive"
            /\ events' = events \o << [type |-> "dataavailable", rec |-> cycle],
                                      [type |-> "stop", rec |-> cycle] >>
            /\ statusEl' = MsgStopping
            /\ startDisabled' = FALSE
            /\ stopDisabled' = TRUE
            /\ pairs' = pairs + 1
            /\ UNCHANGED noopStop
       ELSE /\ noopStop' = TRUE
            /\ UNCHANGED << mediaRecorder, events, statusEl, startDisabled,
                            stopDisabled, pairs >>
    /\ UNCHANGED << initPc, chunks, analysisEl, cycle, tasks, net, stream,
                    blobs, uploads, history >>

\* ---------------------------------------------------- recorder events
\* lines 159-161
OnDataAvailable ==
    /\ events # << >>
    /\ Head(events).type = "dataavailable"
    /\ chunks' = Append(chunks, Head(events).rec)
    /\ events' = Tail(events)
    /\ UNCHANGED << mediaRecorder, initPc, statusEl, analysisEl, startDisabled,
                    stopDisabled, cycle, tasks, net, stream, noopStop, counts,
                    history >>

\* (variant) onstop builds the blob but does not call uploadRecording
OnStopKeepsBlob ==
    /\ events # << >>
    /\ Head(events).type = "stop"
    /\ chunks' = << >>
    /\ events' = Tail(events)
    /\ statusEl' = MsgFinished
    /\ blobs' = blobs + 1
    /\ UNCHANGED << mediaRecorder, initPc, analysisEl, startDisabled,
                    stopDisabled, cycle, tasks, net, stream, noopStop, pairs,
                    uploads, history >>

\* (variant) onstop does not empty the buffer after building the blob
OnStopKeepsChunks ==
    /\ events # << >>
    /\ Head(events).type = "stop"
    /\ LET t == Head(events).rec IN
       /\ tasks' = [tasks EXCEPT ![t] = StartUpload(t, chunks)]
       /\ net' = net \cup {UploadReq(t)}
    /\ events' = Tail(events)
    /\ statusEl' = MsgUploading
    /\ analysisEl' = SetAnalysis(analysisEl, "")
    /\ blobs' = blobs + 1
    /\ uploads' = uploads + 1
    /\ UNCHANGED << mediaRecorder, initPc, startDisabled, stopDisabled, cycle,
                    stream, noopStop, pairs, history, chunks >>

\* lines 163-174, and uploadRecording up to its first await (lines 187-199)
OnStop ==
    /\ events # << >>
    /\ Head(events).type = "stop"
    /\ LET t == Head(events).rec IN
       /\ tasks' = [tasks EXCEPT ![t] = StartUpload(t, chunks)]
       /\ net' = net \cup {UploadReq(t)}
    /\ chunks' = << >>
    /\ events' = Tail(events)
    /\ statusEl' = MsgUploading
    /\ analysisEl' = SetAnalysis(analysisEl, "")
    /\ blobs' = blobs + 1
    /\ uploads' = uploads + 1
    /\ UNCHANGED << mediaRecorder, initPc, startDisabled, stopDisabled, cycle,
                    stream, noopStop, pairs, history >>

\* ------------------------------------------------------ History page
MsgHistoryError == "Could not load history from the server."

\* an entry of data.recordings: its analysis, created_at and audio_url
HistoryRec(analysis, created, url) ==
    [analysis |-> analysis, created_at |-> created, audio_url |-> url]

\* the entries tried: an analysed recording, one with a pitch but no note and
\* an unparsable date, one with nothing filled in, and a null entry
HistoryEntries ==
    { Some(HistoryRec(Some(AnalysisA4), Some("2025-11-03T10:00:00"),
                      Some("/api/recordings/r42/audio"))),
      Some(HistoryRec(Some(AnalysisBare), Some("yesterday"), Some(""))),
      Some(HistoryRec(Null, Null, Null)),
      Null }

\* the body of GET /api/recordings: response.json() rejects ("bad"), or it
\* resolves with null ("null") or with an object whose recordings is
\* missing (Null) or an array
HistoryBody(kind, recordings) == [kind |-> kind, recordings |-> recordings]

HistoryBodies ==
    { HistoryBody("bad", Null), HistoryBody("null", Null),
      HistoryBody("object", Null) } \cup
    { HistoryBody("object", Some(l)) :
        l \in UNION { [1..n -> HistoryEntries] : n \in 0..MaxRecordings } }

\* lines 305-306, 318, 364: if (el) el.hidden = h, for #empty-history
SetHidden(el, h) == IF el = Null THEN Null ELSE Some(h)

\* (variant) the catch block does not show the error message
ErrorKeptHidden(el) == el

\* lines 360-363: the catch block shows the error message
ErrorShown(el) ==
    IF el = Null THEN Null
    ELSE Some([hidden |-> FALSE, text |-> MsgHistoryError])

\* new Date(s).toLocaleString() in an en-US browser, for the dates tried
LocaleString(s) ==
    IF s = "2025-11-03T10:00:00" THEN "11/3/2025, 10:00:00 AM"
    ELSE "Invalid Date"

\* lines 331-341: the title of the entry at position k (index k - 1)
TitleText(rec, k) ==
    LET a == IF rec.analysis = Null THEN Analysis(Null, Null, Null)
             ELSE rec.analysis[1]
        pitch ==
            IF a.pitch_note # Null /\ a.pitch_note # Some("") /\ a.pitch_hz # Null
            THEN a.pitch_note[1] \o " (" \o ToFixed1(a.pitch_hz[1]) \o " Hz)"
            ELSE IF a.pitch_hz # Null
                 THEN ToFixed1(a.pitch_hz[1]) \o " Hz"
                 ELSE "Pitch not available"
        conf ==
            IF a.confidence # Null
            THEN " (confidence " \o RoundPercent(a.confidence[1]) \o "%)"
            ELSE ""
    IN  "Recording " \o ToString(k) \o " - " \o pitch \o conf

\* lines 323-355: the list item built for the entry at position k; a
\* recording without created_at is dated with the time of loading
HistoryItem(rec, k) ==
    [title |-> TitleText(rec, k),
     date |-> "Recorded at: " \o
              (IF rec.created_at = Null THEN "(now)"
               ELSE LocaleString(rec.created_at[1])),
     audio |-> OrText(rec.audio_url, "")]

\* lines 322-357: recordings.forEach from position k on; reading rec.analysis
\* of a null entry throws and ends the loop with the items appended so far
RECURSIVE RenderFrom(_, _, _)
RenderFrom(recs, k, items) ==
    IF k > Len(recs) THEN [items |-> items, threw |-> FALSE]
    ELSE IF recs[k] = Null THEN [items |-> items, threw |-> TRUE]
    ELSE RenderFrom(recs, k + 1, Append(items, HistoryItem(recs[k][1], k)))

\* lines 358-365: the catch block
HistoryCaught(items) ==
    /\ histPc' = "failed"
    /\ errorMessage' = ErrorShown(errorMessage)
    /\ emptyHistory' = SetHidden(emptyHistory, FALSE)
    /\ historyList' = items

\* lines 309-312: fetch('/api/recordings') settles: it rejects, or resolves
\* with response.ok
HistoryFetched(r) ==
    /\ histPc = "await"
    /\ IF r = "ok"
       THEN /\ histPc' = "json"
            /\ UNCHANGED << emptyHistory, errorMessage, historyList >>
       ELSE HistoryCaught(historyList)
    /\ UNCHANGED << mediaRecorder, initPc, chunks, events, statusEl, analysisEl,
                    startDisabled, stopDisabled, cycle, tasks, net, stream,
                    noopStop, counts >>

\* lines 314-357: response.json() settles with body b
HistoryParsed(b) ==
    /\ histPc = "json"
    /\ IF b.kind # "object"
       THEN HistoryCaught(historyList)
       ELSE LET recordings == IF b.recordings = Null THEN << >>
                              ELSE b.recordings[1]
                done == RenderFrom(recordings, 1, historyList)
            IN  IF Len(recordings) = 0
                THEN /\ histPc' = "empty"
                     /\ emptyHistory' = SetHidden(emptyHistory, FALSE)
                     /\ UNCHANGED << errorMessage, historyList >>
                ELSE IF done.threw
                THEN HistoryCaught(done.items)
                ELSE /\ histPc' = "listed"
                     /\ historyList' = done.items
                     /\ UNCHANGED << emptyHistory, errorMessage >>
    /\ UNCHANGED << mediaRecorder, initPc, chunks, events, statusEl, analysisEl,
                    startDisabled, stopDisabled, cycle, tasks, net, stream,
                    noopStop, counts >>

\* ------------------------------------------------------ specifications
\* line 113 of the Record page's handler and line 302 of the History page's:
\* each handler returns at once on the other page.  On the Record page the
\* History loader does nothing
NoHistoryPage ==
    /\ histPc = "off"
    /\ emptyHistory = Null
    /\ errorMessage = Null
    /\ historyList = << >>

\* the page after DOMContentLoaded: initMedia() is awaiting getUserMedia; the
\* buttons' disabled attributes and the presence of #analysis-result come
\* from the page's markup
Init ==
    /\ mediaRecorder = "null"
    /\ initPc = "await"
    /\ chunks = << >>
    /\ events = << >>
    /\ statusEl = MsgInitial
    /\ analysisEl \in {Null, Some("")}
    /\ startDisabled \in BOOLEAN
    /\ stopDisabled \in BOOLEAN
    /\ cycle = 0
    /\ tasks = [t \in Tasks |-> IdleTask]
    /\ net = {}
    /\ stream = "none"
    /\ noopStop = FALSE
    /\ pairs = 0 /\ blobs = 0 /\ uploads = 0
    /\ NoHistoryPage

Next ==
    \/ MicGranted
    \/ MicDenied
    \/ MicSetupFailed
    \/ StartClick
    \/ StopClick
    \/ OnDataAvailable
    \/ OnStop
    \/ \E t \in Tasks, r \in UploadResponses : UploadResponse(t, r)
    \/ \E t \in Tasks, r \in PollResponses : PollResponse(t, r)
    \/ \E t \in Tasks : SleepDone(t)

Spec == Init /\ [][Next]_vars

\* the network and the timers always answer; the user need not click
Fairness ==
    /\ WF_vars(OnDataAvailable)
    /\ WF_vars(OnStop)
    /\ \A t \in Tasks : WF_vars(\E r \in UploadResponses : UploadResponse(t, r))
    /\ \A t \in Tasks : WF_vars(\E r \in PollResponses : PollResponse(t, r))
    /\ \A t \in Tasks : WF_vars(SleepDone(t))

FairSpec == Spec /\ Fairness

\* waitForAnalysis(recordingId, maxTries, delayMs) called on its own, with the
\* arguments drawn from MaxTriesArgs and DelayArgs
PollInit ==
    /\ mediaRecorder = "null"
    /\ initPc = "done"
    /\ chunks = << >>
    /\ events = << >>
    /\ statusEl = MsgInitial
    /\ analysisEl = Some("")
    /\ startDisabled = TRUE
    /\ stopDisabled = TRUE
    /\ cycle = 0
    /\ \E m \in MaxTriesArgs, d \in DelayArgs :
         tasks = [t \in Tasks |->
                    IF t = 1
                    THEN EnterPoll([IdleTask EXCEPT !.caller = "direct",
                                                    !.id = Some("r42"),
                                                    !.hist = "none"], m, d)
                    ELSE IdleTask]
    /\ net = {PollReq(1, 1)}
    /\ stream = "none"
    /\ noopStop = FALSE
    /\ pairs = 0 /\ blobs = 0 /\ uploads = 0
    /\ NoHistoryPage

PollNext ==
    \/ \E t \in Tasks, r \in PollResponses : PollResponse(t, r)
    \/ \E t \in Tasks : SleepDone(t)

PollSpec == PollInit /\ [][PollNext]_vars

\* one recording cycle running alone, from the state OnStop leaves after the
\* first recording: uploadRecording is awaiting the upload, nothing is clicked
CycleInit ==
    /\ mediaRecorder = "inactive"
    /\ initPc = "done"
    /\ chunks = << >>
    /\ events = << >>
    /\ statusEl = MsgUploading
    /\ analysisEl \in {Null, Some("")}
    /\ startDisabled = FALSE
    /\ stopDisabled = TRUE
    /\ cycle = 1
    /\ tasks = [t \in Tasks |->
                  IF t = 1
                  THEN [StartUpload(1, << 1 >>) EXCEPT !.hist = "none"]
                  ELSE IdleTask]
    /\ net = {UploadReq(1)}
    /\ stream = "live"
    /\ noopStop = FALSE
    /\ pairs = 1 /\ blobs = 1 /\ uploads = 1
    /\ NoHistoryPage

CycleNext ==
    \/ \E t \in Tasks, r \in UploadResponses : UploadResponse(t, r)
    \/ \E t \in Tasks, r \in PollResponses : PollResponse(t, r)
    \/ \E t \in Tasks : SleepDone(t)

CycleSpec == CycleInit /\ [][CycleNext]_vars

\* the History page after DOMContentLoaded: the Record page's handler has
\* returned at line 113, the loader has hidden both indicators (lines
\* 305-306) and is awaiting fetch('/api/recordings'); whether the page has
\* #empty-history and #error-message comes from its markup
HistoryInit ==
    /\ mediaRecorder = "null"
    /\ initPc = "off"
    /\ chunks = << >>
    /\ events = << >>
    /\ statusEl = MsgInitial
    /\ analysisEl = Null
    /\ startDisabled = TRUE
    /\ stopDisabled = TRUE
    /\ cycle = 0
    /\ tasks = [t \in Tasks |-> IdleTask]
    /\ net = {}
    /\ stream = "none"
    /\ noopStop = FALSE
    /\ pairs = 0 /\ blobs = 0 /\ uploads = 0
    /\ histPc = "await"
    /\ emptyHistory \in {Null, SetHidden(Some(FALSE), TRUE)}
    /\ errorMessage \in {Null, Some([hidden |-> TRUE, text |-> ""])}
    /\ historyList = << >>

HistoryNext ==
    \/ \E r \in {"throw", "notok", "ok"} : HistoryFetched(r)
    \/ \E b \in HistoryBodies : HistoryParsed(b)

HistorySpec == HistoryInit /\ [][HistoryNext]_vars

\* ================================================================ claims

\* C1: when a new recording cycle was started (a start click began a
\* recording) while the poll of an earlier cycle was still unresolved, the
\* step in which that earlier poll's result arrives (success, error or
\* timeout) changes neither the status text nor the analysis display.
C1_StalePollLeavesDisplay ==
    [][\A t \in Tasks :
          (/\ tasks[t].pc \in {"fetch", "sleep"}
           /\ tasks'[t].pc \in Terminal
           /\ tasks[t].cycleAtPoll < cycle)
          => (statusEl' = statusEl /\ analysisEl' = analysisEl)]_vars

\* C2: once a fetch has returned a recording whose status is error, the poll
\* is over and no later fetch was or is being made; when that was the first
\* fetch, exactly one fetch was made, whatever maxTries is.
C2_ErrorStopsPoll ==
    \A t \in Tasks :
        (tasks[t].got # Null /\ ReportsError(tasks[t].got[1]))
        => /\ tasks[t].pc \in Terminal
           /\ tasks[t].result = Null
           /\ tasks[t].nfetch = tasks[t].gotAt
           /\ \A q \in net : q.task # t
           /\ (tasks[t].hist = "none" => tasks[t].nfetch = 1)

\* an error status on the first fetch of a call that was allowed 20 tries
C2_Witness ==
    /\ tasks[1].got # Null /\ ReportsError(tasks[1].got[1])
    /\ tasks[1].hist = "none"
    /\ tasks[1].maxTries = DefaultMaxTries
    /\ tasks[1].nfetch = 1
    /\ tasks[1].pc = "returned"

\* C3: while every fetch of a cycle's poll has returned status done with an
\* analysis whose pitch_hz is null, the cycle is never complete; the poll
\* ends only after exactly maxTries fetches, as a timeout, and the cycle is
\* then failed.
C3_DoneWithoutPitchTimesOut ==
    \A t \in Tasks :
        (tasks[t].hist = "doneNull" /\ tasks[t].got = Null)
        => /\ tasks[t].pc \in {"fetch", "sleep", "failed"}
           /\ tasks[t].nfetch <= tasks[t].maxTries
           /\ tasks[t].pc = "failed" =>
                /\ tasks[t].nfetch = tasks[t].maxTries
                /\ tasks[t].cause = "timeout"
                /\ tasks[t].result = Null
                /\ statusEl = MsgNotInTime

\* the cycle failed after 20 fetches that all returned done without a pitch
C3_Witness ==
    /\ tasks[1].hist = "doneNull" /\ tasks[1].got = Null
    /\ tasks[1].pc = "failed"
    /\ tasks[1].nfetch = DefaultMaxTries

\* C4: fetches that throw do not end the poll: while every fetch so far has
\* thrown, the call returns only by exhausting maxTries, and when the first
\* k fetches threw (k >= 0) and fetch k+1 returned done with a pitch, the
\* call has returned that analysis after exactly k+1 fetches.
C4_ThrowsDoNotAbort ==
    \A t \in Tasks :
        (tasks[t].nfetch >= 1 /\ tasks[t].hist \in {"none", "throw"})
        => /\ (tasks[t].got = Null /\ tasks[t].pc \in Terminal)
                => tasks[t].nfetch = tasks[t].maxTries
           /\ (tasks[t].got # Null /\ ReportsDone(tasks[t].got[1]))
                => /\ tasks[t].pc \in Terminal
                   /\ tasks[t].result = tasks[t].got[1].analysis
                   /\ tasks[t].nfetch = tasks[t].gotAt

\* throws on attempts 1-5, done with a pitch on attempt 6, maxTries 20
C4_Witness ==
    /\ tasks[1].hist = "throw"
    /\ tasks[1].gotAt = 6
    /\ tasks[1].nfetch = 6
    /\ tasks[1].maxTries = DefaultMaxTries
    /\ tasks[1].pc = "returned"
    /\ tasks[1].result = Some(AnalysisA4)

\* C7: when the first k fetches of a cycle's poll (k >= 0) answered pending
\* or processing and fetch k+1 answered done with a pitch, the cycle made
\* exactly k+1 fetches and is complete, and the display shows the pitch,
\* note and confidence of that last response.
C7_PendingThenDoneCompletes ==
    \A t \in Tasks :
        (/\ tasks[t].nfetch >= 1
         /\ tasks[t].hist \in {"none", "wait"}
         /\ tasks[t].got # Null /\ ReportsDone(tasks[t].got[1]))
        => /\ tasks[t].pc = "complete"
           /\ tasks[t].nfetch = tasks[t].gotAt
           /\ tasks[t].result = tasks[t].got[1].analysis
           /\ statusEl = MsgComplete
           /\ analysisEl # Null =>
                analysisEl =
                    IF tasks[t].got[1].analysis = Some(AnalysisA4)
                    THEN Some("Detected pitch: A4 (440.0 Hz) (confidence 92%)")
                    ELSE IF tasks[t].got[1].analysis = Some(AnalysisBare)
                    THEN Some("Detected pitch: 261.6 Hz")
                    ELSE Null

\* pending on the first fetch, done with {440.0, "A4", 0.92} on the second
C7_Witness ==
    /\ tasks[1].hist = "wait"
    /\ tasks[1].gotAt = 2 /\ tasks[1].nfetch = 2
    /\ tasks[1].pc = "complete"
    /\ tasks[1].got[1].analysis = Some(AnalysisA4)
    /\ analysisEl = Some("Detected pitch: A4 (440.0 Hz) (confidence 92%)")

\* C10 as claimed: the fetches of a call never exceed the maxTries argument
\* passed to it.
C10_AsClaimed ==
    \A t \in Tasks :
        tasks[t].maxArg # Null => tasks[t].nfetch <= tasks[t].maxArg[1]

\* C10 (amended): the fetches of a call never exceed maxTries when a positive
\* maxTries is passed, and never exceed 20 when it is omitted or zero.
C10_FetchesBounded ==
    \A t \in Tasks :
        tasks[t].nfetch <=
            (IF tasks[t].maxArg = Null \/ tasks[t].maxArg = Some(0)
             THEN 20
             ELSE tasks[t].maxArg[1])

\* a call with maxTries = 2 that used both fetches and timed out
C10_Witness ==
    /\ tasks[1].maxArg = Some(2)
    /\ tasks[1].nfetch = 2
    /\ tasks[1].pc = "returned"
    /\ tasks[1].cause = "timeout"

\* C5 as claimed: a cycle that failed because the backend reported status
\* error and a cycle that failed because the poll ran out of tries do not
\* show the same status message.
C5_ErrorAndTimeoutDiffer ==
    \A t1, t2 \in Tasks :
        (tasks[t1].cause = "server_error" /\ tasks[t2].cause = "timeout")
        => tasks[t1].shown # tasks[t2].shown

\* C6 as claimed: when the backend reported status error with an
\* error_message, the failed cycle's status message contains that message.
C6_ServerReasonShown ==
    \A t \in Tasks :
        (/\ tasks[t].pc = "failed"
         /\ tasks[t].got # Null /\ ReportsError(tasks[t].got[1])
         /\ tasks[t].got[1].error_message # Null)
        => LET m == tasks[t].got[1].error_message[1]
               text == tasks[t].shown
           IN  \E k \in 1..(Len(text) - Len(m) + 1) :
                   SubSeq(text, k, k + Len(m) - 1) = m

\* C9: a poll fetch is in flight for a cycle only after its upload request
\* has settled and returned an identifier, only while waitForAnalysis is
\* awaiting it (not during the wait between attempts), and never together
\* with another poll fetch of the same call.
C9_UploadThenSequentialPolls ==
    \A t \in Tasks :
        LET polls == {q \in net : q.task = t /\ q.kind = "poll"} IN
        /\ Cardinality(polls) <= 1
        /\ polls # {} =>
             /\ UploadReq(t) \notin net
             /\ tasks[t].pc = "fetch"
             /\ polls = {PollReq(t, tasks[t].nfetch)}
        /\ (tasks[t].nfetch >= 1 \/ tasks[t].pc \in {"fetch", "sleep"}) =>
             (tasks[t].id # Null /\ tasks[t].id # Some(""))

\* the second fetch of the first cycle's poll is in flight while the second
\* cycle is uploading
C9_Witness ==
    /\ tasks[1].pc = "fetch" /\ tasks[1].nfetch = 2
    /\ PollReq(1, 2) \in net
    /\ UploadReq(2) \in net

\* C8 as claimed: in the step that ends a cycle (complete or failed) the
\* start button is enabled.
C8_AsClaimed ==
    [][\A t \in Tasks :
          (/\ tasks[t].pc \notin {"complete", "failed"}
           /\ tasks'[t].pc \in {"complete", "failed"})
          => ~startDisabled']_vars

\* C8 (amended): provided every request and timer settles, every cycle that
\* reaches uploading eventually is complete or failed (no exception leaves
\* uploadRecording), and in the step that ends it the start button is
\* enabled unless a newer recording is in progress at that moment.
C8_CycleEnds ==
    /\ \A t \in Tasks :
          (tasks[t].pc = "upload") ~> (tasks[t].pc \in {"complete", "failed"})
    /\ [][\A t \in Tasks :
             (/\ tasks[t].pc \notin {"complete", "failed"}
              /\ tasks'[t].pc \in {"complete", "failed"})
             => (startDisabled' => mediaRecorder' = "recording")]_vars

\* a cycle ended by an exception, with the start button enabled
C8_Witness ==
    /\ tasks[1].pc = "failed"
    /\ tasks[1].cause = "exception"
    /\ ~startDisabled

\* C11: a stop click that finds the recorder not recording (never started,
\* or not set up) changes nothing: no recorder event is queued, so no blob is
\* built and no upload is made, and the status text, the display and both
\* buttons stay as they were.
C11_StopWhenNotRecordingIsNoOp ==
    [][(StopClick /\ mediaRecorder # "recording")
       => UNCHANGED << mediaRecorder, initPc, chunks, events, statusEl,
                       analysisEl, startDisabled, stopDisabled, cycle, tasks,
                       net, stream, counts >>]_vars

\* the stop button was clicked on a page whose recorder is ready and has
\* never been started; the status still says the microphone is ready
C11_Witness ==
    /\ noopStop
    /\ mediaRecorder = "inactive"
    /\ cycle = 0
    /\ statusEl = MsgMicReady
    /\ events = << >> /\ net = {} /\ blobs = 0 /\ uploads = 0

\* C12: whatever start and stop clicks were made, the blobs built so far plus
\* the stop events still queued number the recordings that were started and
\* then stopped (so once the recorder's events are delivered there is exactly
\* one blob per completed start/stop pair), every blob was handed to exactly
\* one uploadRecording call, and a recording that was started and is not yet
\* stopped has no blob and no upload.
C12_OneBlobPerStartStopPair ==
    LET stopsQueued ==
            Cardinality({k \in 1..Len(events) : events[k].type = "stop"})
    IN  /\ pairs = cycle - (IF mediaRecorder = "recording" THEN 1 ELSE 0)
        /\ blobs + stopsQueued = pairs
        /\ uploads = blobs
        /\ blobs = Cardinality({t \in Tasks : tasks[t].pc # "idle"})
        /\ mediaRecorder = "recording"
           => /\ tasks[cycle].pc = "idle"
              /\ UploadReq(cycle) \notin net
              /\ \A k \in 1..Len(events) : events[k].rec # cycle

\* the second recording is running and only the first, which was stopped,
\* has a blob and an upload
C12_Witness ==
    /\ mediaRecorder = "recording"
    /\ cycle = 2
    /\ pairs = 1 /\ blobs = 1 /\ uploads = 1
    /\ tasks[1].pc # "idle" /\ tasks[2].pc = "idle"

\* C13: once the upload request has failed (the fetch or the parsing of its
\* body threw, or the response's status was not a success) the cycle is
\* failed and the status shows a reason: the body's error text when the
\* response carried one, else a generic text; uploadRecording was called once
\* for the blob, the poll was never entered, and no poll fetch was made or is
\* in flight for the cycle.
C13_UploadFailureEndsCycle ==
    \A t \in Tasks :
        (/\ tasks[t].upResp # Null
         /\ (tasks[t].upResp[1].kind = "throw" \/ ~tasks[t].upResp[1].ok))
        => /\ tasks[t].pc = "failed"
           /\ tasks[t].shown =
                 (IF /\ tasks[t].upResp[1].kind = "http"
                     /\ tasks[t].upResp[1].error # Null
                     /\ tasks[t].upResp[1].error # Some("")
                  THEN tasks[t].upResp[1].error[1]
                  ELSE IF tasks[t].upResp[1].kind = "http"
                       THEN "Upload failed."
                       ELSE "Error uploading or analyzing recording.")
           /\ statusEl = tasks[t].shown
           /\ uploads = 1
           /\ tasks[t].nfetch = 0 /\ tasks[t].maxTries = 0
           /\ \A q \in net : q.task # t

\* the upload was answered 400 with {error: "No audio file"}
C13_Witness ==
    /\ tasks[1].upResp = Some(UploadHttp(FALSE, Null, Some("No audio file")))
    /\ tasks[1].pc = "failed"
    /\ statusEl = "No audio file"

\* C14: an upload answered with a success status whose body has no id, or an
\* empty one, is an upload failure: the cycle is failed with the status
\* "Upload succeeded, but no recording ID returned.", waitForAnalysis was
\* never called and no poll fetch was made or is in flight.
C14_NoIdIsUploadFailure ==
    \A t \in Tasks :
        (/\ tasks[t].upResp # Null
         /\ tasks[t].upResp[1].kind = "http" /\ tasks[t].upResp[1].ok
         /\ tasks[t].upResp[1].id \in {Null, Some("")})
        => /\ tasks[t].pc = "failed"
           /\ tasks[t].shown = "Upload succeeded, but no recording ID returned."
           /\ statusEl = tasks[t].shown
           /\ tasks[t].nfetch = 0 /\ tasks[t].maxTries = 0
           /\ tasks[t].result = Null
           /\ \A q \in net : q.task # t

\* the upload was answered 200 with {id: ""}
C14_Witness ==
    /\ tasks[1].upResp = Some(UploadHttp(TRUE, Some(""), Null))
    /\ tasks[1].pc = "failed"
    /\ net = {}

\* C15: the orchestrator's state, read off the status text, changes only
\* along idle -> recording, recording -> uploading, uploading -> analyzing,
\* uploading -> failed, analyzing -> complete and analyzing -> failed, and
\* enters recording from a later state only in a step that is a start click
\* beginning a recording; no step makes any other change of state.
C15_OnlyListedTransitions ==
    [][LET Phase(s) ==
               CASE s \in {MsgInitial, MsgMicReady, MsgMicDenied, MsgNotInit}
                        -> "idle"
                 [] s = MsgRecording -> "recording"
                 [] s \in {MsgStopping, MsgFinished, MsgUploading} -> "uploading"
                 [] s = MsgAnalyzing -> "analyzing"
                 [] s = MsgComplete -> "complete"
                 [] OTHER -> "failed"
           from == Phase(statusEl)
           to == Phase(statusEl')
       IN  \/ from = to
           \/ << from, to >> \in
                 { << "idle", "recording" >>, << "recording", "uploading" >>,
                   << "uploading", "analyzing" >>, << "uploading", "failed" >>,
                   << "analyzing", "complete" >>, << "analyzing", "failed" >> }
           \/ /\ to = "recording"
              /\ mediaRecorder = "inactive" /\ mediaRecorder' = "recording"
              /\ cycle' = cycle + 1]_vars

\* C16: as long as the recorder has not been set up (getUserMedia is pending,
\* was refused, or set-up failed) no recording has begun and nothing can come
\* of one: no recorder event, chunk, blob, upload or request exists; a start
\* click in that time only shows "Microphone not initialized yet."; and once
\* acquisition has failed the start button is disabled and the status shows
\* "Microphone access denied or unavailable.".
C16_NoRecordingWithoutMicrophone ==
    mediaRecorder = "null"
    => /\ cycle = 0 /\ pairs = 0 /\ blobs = 0 /\ uploads = 0
       /\ chunks = << >> /\ events = << >> /\ net = {}
       /\ \A t \in Tasks : tasks[t].pc = "idle"
       /\ initPc = "await" => statusEl \in {MsgInitial, MsgNotInit}
       /\ initPc = "done" => (startDisabled /\ statusEl = MsgMicDenied)

\* the microphone was refused: the start button is disabled, the reason is
\* shown and nothing was recorded
C16_Witness ==
    /\ mediaRecorder = "null"
    /\ initPc = "done"
    /\ stream = "none"
    /\ startDisabled
    /\ statusEl = MsgMicDenied
    /\ cycle = 0

\* C17: while a recording is in progress a start request is rejected: the
\* start button is disabled, so no start click is delivered and the start
\* handler cannot run; no second recording is begun and neither the recorder
\* nor the chunk buffer is touched by a start request.
C17_NoStartWhileRecording ==
    mediaRecorder = "recording" => (startDisabled /\ ~ENABLED StartClick)

\* the second recording is in progress while the first one's chunk is in the
\* buffer, waiting for its stop event
C17_Witness ==
    /\ mediaRecorder = "recording"
    /\ cycle = 2
    /\ chunks = << 1 >>
    /\ startDisabled /\ ~stopDisabled

\* C18: once the capture session has ended in failure (set-up is over and
\* there is no recorder) the microphone stream is not left live: a stream
\* that was obtained has been stopped.
C18_StreamReleasedOnFailure ==
    (initPc = "done" /\ mediaRecorder = "null") => stream # "live"

\* C19: the History loader never ends outside its own outcomes (nothing is
\* thrown out of it), and on a page that has the error message element an
\* empty result and a failure show different indicators: after an empty
\* result the empty-history indicator is shown and the error message stays
\* hidden; after a failure the error message is shown, with its text.
C19_EmptyAndFailureDiffer ==
    /\ histPc \in {"await", "json", "empty", "listed", "failed"}
    /\ histPc = "empty"
       => /\ historyList = << >>
          /\ emptyHistory # Null => emptyHistory = Some(FALSE)
          /\ errorMessage # Null => errorMessage[1].hidden
    /\ histPc = "failed"
       => /\ emptyHistory # Null => emptyHistory = Some(FALSE)
          /\ errorMessage # Null
             => errorMessage =
                   Some([hidden |-> FALSE,
                         text |-> "Could not load history from the server."])

\* the fetch failed on a page that has both indicators: both are shown
C19_Witness ==
    /\ histPc = "failed"
    /\ historyList = << >>
    /\ emptyHistory = Some(FALSE)
    /\ errorMessage # Null /\ ~errorMessage[1].hidden

\* C20: for a recording cycle running alone, on a page that has the analysis
\* display: when the cycle has ended failed (upload failure, missing id,
\* server error, timeout or exception) the display is empty, when it has
\* ended complete the display is not empty, and while the cycle is still
\* uploading or analyzing the display is empty.
C20_AnalysisShownOnlyOnComplete ==
    analysisEl # Null
    => /\ tasks[1].pc = "failed" => analysisEl = Some("")
       /\ tasks[1].pc = "complete"
          => /\ analysisEl # Some("")
             /\ tasks[1].result # Null
             /\ tasks[1].cause \notin {"exception", "upload_http", "no_id",
                                       "server_error", "timeout"}
       /\ tasks[1].pc \in {"upload", "fetch", "sleep"} => analysisEl = Some("")

\* the cycle completed with a pitch that has neither note nor confidence
C20_Witness ==
    /\ tasks[1].pc = "complete"
    /\ analysisEl = Some("Detected pitch: 261.6 Hz")
    /\ statusEl = MsgComplete

\* C21: a poll fetch answered with a non-success HTTP status is a miss, and
\* its body is not read, whatever status it names: while every fetch so far
\* was answered that way the call is still polling or has returned null by
\* exhausting maxTries, each such answer having used one try (the call then
\* sleeps and makes the next fetch); and when fetch k+1 then answers done
\* with a pitch the call returns that analysis after exactly k+1 fetches.
C21_NotOkIsAMiss ==
    \A t \in Tasks :
        (tasks[t].nfetch >= 1 /\ tasks[t].hist = "notok")
        => /\ tasks[t].nfetch <= tasks[t].maxTries
           /\ tasks[t].got = Null
              => /\ tasks[t].pc \in {"fetch", "sleep", "returned"}
                 /\ tasks[t].pc = "fetch" => tasks[t].i = tasks[t].nfetch - 1
                 /\ tasks[t].pc = "sleep" => tasks[t].i = tasks[t].nfetch - 1
                 /\ tasks[t].pc = "returned"
                    => /\ tasks[t].nfetch = tasks[t].maxTries
                       /\ tasks[t].cause = "timeout"
                       /\ tasks[t].result = Null
           /\ (tasks[t].got # Null /\ ReportsDone(tasks[t].got[1]))
              => /\ tasks[t].pc = "returned"
                 /\ tasks[t].result = tasks[t].got[1].analysis
                 /\ tasks[t].nfetch = tasks[t].gotAt

\* two fetches answered with a non-success status, the third done with a
\* pitch, maxTries 20
C21_Witness ==
    /\ tasks[1].hist = "notok"
    /\ tasks[1].gotAt = 3
    /\ tasks[1].nfetch = 3
    /\ tasks[1].maxTries = DefaultMaxTries
    /\ tasks[1].pc = "returned"
    /\ tasks[1].result = Some(AnalysisA4)

\* C22: a call of waitForAnalysis polls with 20 tries when maxTries was
\* omitted or 0, else with the maxTries passed, and waits 1000 ms between
\* tries when delayMs was omitted or 0, else the delayMs passed; so a call
\* with maxTries = 0 makes at least one fetch and at most 20, and returns
\* by running out of tries only after 20 fetches.
C22_ZeroOrOmittedGetDefaults ==
    \A t \in Tasks :
        tasks[t].nfetch >= 1
        => /\ tasks[t].maxTries =
                 (IF tasks[t].maxArg \in {Null, Some(0)} THEN 20
                  ELSE tasks[t].maxArg[1])
           /\ tasks[t].delayMs =
                 (IF tasks[t].delayArg \in {Null, Some(0)} THEN 1000
                  ELSE tasks[t].delayArg[1])
           /\ tasks[t].maxArg = Some(0)
              => /\ tasks[t].nfetch \in 1..20
                 /\ tasks[t].cause = "timeout" => tasks[t].nfetch = 20

\* a call with maxTries = 0 and delayMs = 0 that made 20 fetches and timed out
C22_Witness ==
    /\ tasks[1].maxArg = Some(0)
    /\ tasks[1].delayArg = Some(0)
    /\ tasks[1].delayMs = 1000
    /\ tasks[1].nfetch = 20
    /\ tasks[1].pc = "returned"
    /\ tasks[1].cause = "timeout"

\* C23: whatever the order of start clicks, stop clicks and recorder events,
\* the blob built for a recording consists of exactly the one chunk the
\* recorder delivered for that recording, and the shared buffer is empty
\* except between a recording's dataavailable and stop handlers, when it
\* holds that recording's chunk alone; so it is empty right after a blob is
\* built.
C23_BlobIsItsOwnChunks ==
    /\ \A t \in Tasks : tasks[t].pc # "idle" => tasks[t].blob = << t >>
    /\ \/ chunks = << >>
       \/ /\ events # << >>
          /\ Head(events).type = "stop"
          /\ chunks = << Head(events).rec >>

\* both recordings were stopped and their blobs built, each from its own
\* chunk; the buffer is empty again
C23_Witness ==
    /\ tasks[1].pc # "idle" /\ tasks[1].blob = << 1 >>
    /\ tasks[2].pc # "idle" /\ tasks[2].blob = << 2 >>
    /\ chunks = << >> /\ events = << >>
    /\ blobs = 2

====
